---- MODULE Spec2Model ----
(***************************************************************************)
(* Model of morepipes.py: lazy generator pipes (take, flatten, chunks,     *)
(* unique, squeeze, traverse, asserteach), the pipe tails (collect, first, *)
(* last, find) and partial pipes (_PartialPipe, P).                        *)
(*                                                                         *)
(* One behaviour runs one pipe on one input.  A generator pipe is resumed  *)
(* by its consumer one next() at a time; every resumption is one action.   *)
(* `pulled` counts the elements the pipe has taken from its source         *)
(* iterator, `out` is what it has yielded so far.                          *)
(***************************************************************************)
EXTENDS Integers, Sequences, FiniteSets, TLC

VARIABLES op, src, n, arg, isSeq, pulled, asked, out, pc, ret, i, prev, seen,
          heap, built

vars == <<op, src, n, arg, isSeq, pulled, asked, out, pc, ret, i, prev, seen,
          heap, built>>

\* ---------------------------------------------------------------- bounds
MaxLen == 4       \* longest flat input sequence
MaxInt == 2       \* flat inputs hold the integers 0..MaxInt
MaxN == 3         \* largest count given to take and chunks
MaxRange == 9     \* chunks is run on range(0) .. range(MaxRange)
MaxNest == 2      \* longest input of flatten and collect
MaxInner == 2     \* longest inner list of a traverse input
MaxTop == 2       \* longest outer list of a traverse input
MaxChains == 3    \* partial pipes built on top of P

\* ---------------------------------------------------------------- values
\* Python objects, tagged by type.  Equality of records is Python's == on
\* these types: equal type and equal content.
I(k) == [tag |-> "int", v |-> <<k>>]
Str(cs) == [tag |-> "str", v |-> cs]
Bytes(bs) == [tag |-> "bytes", v |-> bs]
List(xs) == [tag |-> "list", v |-> xs]
None == [tag |-> "NoneType", v |-> <<>>]
_SENTINEL == [tag |-> "object", v |-> <<>>]
NotReturned == [tag |-> "noreturn", v |-> <<>>]

IntOf(x) == x.v[1]

SeqsUpTo(S, k) == UNION {[1..m -> S] : m \in 0..k}

Ints == {I(k) : k \in 0..MaxInt}
FlatInputs == SeqsUpTo(Ints, MaxLen)

range(k) == [j \in 1..k |-> I(j - 1)]
RangeInputs == {range(k) : k \in 0..MaxRange}

Min(a, b) == IF a < b THEN a ELSE b

IsPrefix(s, t) == Len(s) <= Len(t) /\ SubSeq(t, 1, Len(s)) = s

\* collections.abc.Iterable / Sequence membership of the modelled types
IsIterable(x) == x.tag \in {"str", "bytes", "list"}

\* what iterating an iterable object produces
Items(x) ==
    CASE x.tag = "list" -> x.v
      [] x.tag = "str" -> [k \in 1..Len(x.v) |-> Str(<<x.v[k]>>)]
      [] x.tag = "bytes" -> [k \in 1..Len(x.v) |-> I(x.v[k])]

\* bool(x)
Truthy(x) ==
    CASE x.tag = "int" -> IntOf(x) # 0
      [] x.tag = "NoneType" -> FALSE
      [] x.tag \in {"str", "bytes", "list"} -> Len(x.v) > 0
      [] OTHER -> TRUE

iseven(x) == IntOf(x) % 2 = 0
ismul3(x) == IntOf(x) % 3 = 0

Predicates == {"iseven", "ismul3", "isnone", "_identity"}

\* predicate(item) as a truth value
Holds(p, x) ==
    CASE p = "iseven" -> iseven(x)
      [] p = "ismul3" -> ismul3(x)
      [] p = "isnone" -> x = None
      [] p = "_identity" -> Truthy(x)

\* ---------------------------------------------------------------- take
\* One resumption of the take generator on source s, with p elements of the
\* iterator already read and j iterations of `for _ in range(n)` started.
TakeEatsOneMore(s, p, j, k) ==
    IF p < Len(s)
    THEN IF j < k
         THEN [kind |-> "yield", item |-> s[p + 1], p |-> p + 1, j |-> j + 1, req |-> 1]
         ELSE [kind |-> "return", item |-> None, p |-> p + 1, j |-> j, req |-> 1]
    ELSE [kind |-> "return", item |-> None, p |-> p, j |-> j, req |-> 1]

take(s, p, j, k) ==
    IF j < k
    THEN IF p < Len(s)
         THEN [kind |-> "yield", item |-> s[p + 1], p |-> p + 1, j |-> j + 1, req |-> 1]
         ELSE [kind |-> "return", item |-> None, p |-> p, j |-> j + 1, req |-> 1]
    ELSE [kind |-> "return", item |-> None, p |-> p, j |-> j, req |-> 0]

InitFrame ==
    /\ pulled = 0 /\ asked = 0 /\ out = <<>> /\ pc = "run" /\ ret = NotReturned
    /\ i = 0 /\ prev = _SENTINEL /\ seen = {}

NoArgs == n = 0 /\ arg = "" /\ isSeq = FALSE
NoHeap == heap = <<>> /\ built = <<>>

InitTake ==
    /\ op = "take" /\ src \in FlatInputs /\ n \in 0..MaxN
    /\ arg = "" /\ isSeq = FALSE /\ InitFrame /\ NoHeap

TakeNext ==
    /\ op = "take" /\ pc = "run"
    /\ LET r == take(src, pulled, i, n) IN
         /\ pulled' = r.p
         /\ i' = r.j
         /\ asked' = asked + r.req
         /\ out' = IF r.kind = "yield" THEN Append(out, r.item) ELSE out
         /\ pc' = IF r.kind = "yield" THEN "run" ELSE "done"
    /\ UNCHANGED <<op, src, n, arg, isSeq, ret, prev, seen, heap, built>>

\* ---------------------------------------------------------------- flatten
NestElems ==
    { I(1), None, Str(<<"a", "b">>), Str(<<>>), Bytes(<<7>>), List(<<>>),
      List(<<I(1), I(2)>>), List(<<List(<<I(3)>>)>>) }
NestInputs == SeqsUpTo(NestElems, MaxNest)

\* The outer `for item in iterable` of flatten, from p elements read, up to
\* its next yield: an iterable item starts the inner loop (j counts the
\* sub-elements yielded from it), an empty iterable item yields nothing.
RECURSIVE FlattenKeepsText(_, _)
FlattenKeepsText(s, p) ==
    IF p = Len(s)
    THEN [kind |-> "return", item |-> None, p |-> p, j |-> 0]
    ELSE LET item == s[p + 1] IN
         IF IsIterable(item) /\ item.tag \notin {"str", "bytes"}
         THEN IF Len(Items(item)) > 0
              THEN [kind |-> "yield", item |-> Items(item)[1], p |-> p + 1, j |-> 1]
              ELSE FlattenKeepsText(s, p + 1)
         ELSE [kind |-> "yield", item |-> item, p |-> p + 1, j |-> 0]

RECURSIVE flattenOuter(_, _)
flattenOuter(s, p) ==
    IF p = Len(s)
    THEN [kind |-> "return", item |-> None, p |-> p, j |-> 0]
    ELSE LET item == s[p + 1] IN
         IF IsIterable(item)
         THEN IF Len(Items(item)) > 0
              THEN [kind |-> "yield", item |-> Items(item)[1], p |-> p + 1, j |-> 1]
              ELSE flattenOuter(s, p + 1)
         ELSE [kind |-> "yield", item |-> item, p |-> p + 1, j |-> 0]

\* One resumption of the flatten generator: continue the inner `for x in
\* item` when it has more, else go on with the outer loop.
flatten(s, p, j) ==
    IF j > 0 /\ j < Len(Items(s[p]))
    THEN [kind |-> "yield", item |-> Items(s[p])[j + 1], p |-> p, j |-> j + 1]
    ELSE flattenOuter(s, p)

InitFlatten ==
    /\ op = "flatten" /\ src \in NestInputs
    /\ NoArgs /\ InitFrame /\ NoHeap

FlattenNext ==
    /\ op = "flatten" /\ pc = "run"
    /\ LET r == flatten(src, pulled, i) IN
         /\ pulled' = r.p
         /\ i' = r.j
         /\ out' = IF r.kind = "yield" THEN Append(out, r.item) ELSE out
         /\ pc' = IF r.kind = "yield" THEN "run" ELSE "done"
    /\ UNCHANGED <<op, src, n, arg, isSeq, asked, ret, prev, seen, heap, built>>

\* ---------------------------------------------------------------- collect
CollectElems == {I(0), I(1), Str(<<"a">>), Str(<<"b", "c">>)}
CollectInputs == SeqsUpTo(CollectElems, MaxNest)
Types == {"unspecified", "list", "str"}

RECURSIVE join(_)
join(xs) == IF xs = <<>> THEN <<>> ELSE Head(xs).v \o join(Tail(xs))

\* collect(iterable, typ=list): the value returned, or a TypeError when
\* str.join meets an element that is not a str
CollectDiscards(xs, typ) ==
    IF typ = "unspecified"
    THEN [kind |-> "return", value |-> None]
    ELSE IF typ = "str"
         THEN IF \A k \in 1..Len(xs) : xs[k].tag = "str"
              THEN [kind |-> "return", value |-> Str(join(xs))]
              ELSE [kind |-> "raise", value |-> NotReturned]
         ELSE [kind |-> "return", value |-> List(xs)]

collect(xs, typ) ==
    LET t == IF typ = "unspecified" THEN "list" ELSE typ IN
    IF t = "str"
    THEN IF \A k \in 1..Len(xs) : xs[k].tag = "str"
         THEN [kind |-> "return", value |-> Str(join(xs))]
         ELSE [kind |-> "raise", value |-> NotReturned]
    ELSE [kind |-> "return", value |-> List(xs)]

InitCollect ==
    /\ op = "collect" /\ src \in CollectInputs /\ arg \in Types
    /\ n = 0 /\ isSeq = FALSE /\ InitFrame /\ NoHeap

CollectCall ==
    /\ op = "collect" /\ pc = "run"
    /\ LET r == collect(src, arg) IN
         /\ ret' = r.value
         /\ pc' = IF r.kind = "return" THEN "done" ELSE "raised"
         \* join reads its whole argument before it checks the element types
         /\ pulled' = Len(src)
    /\ UNCHANGED <<op, src, n, arg, isSeq, asked, out, i, prev, seen, heap, built>>

\* ---------------------------------------------------------------- chunks
\* it | take(n) | collect on the shared iterator: the list of what take
\* yields, and how far the iterator was read.
RECURSIVE TakeCollect(_, _, _, _, _)
TakeCollect(s, p, j, k, acc) ==
    LET r == take(s, p, j, k) IN
    IF r.kind = "yield"
    THEN TakeCollect(s, r.p, r.j, k, Append(acc, r.item))
    ELSE [chunk |-> collect(acc, "unspecified").value, p |-> r.p]

\* One resumption of the chunks generator: read the next chunk, stop when
\* it is short, else yield it.
ChunksYieldsShort(s, p, k) ==
    LET c == TakeCollect(s, p, 0, k, <<>>) IN
    IF Len(c.chunk.v) < 1
    THEN [kind |-> "return", item |-> None, p |-> c.p]
    ELSE [kind |-> "yield", item |-> c.chunk, p |-> c.p]

chunks(s, p, k) ==
    LET c == TakeCollect(s, p, 0, k, <<>>) IN
    IF Len(c.chunk.v) < k
    THEN [kind |-> "return", item |-> None, p |-> c.p]
    ELSE [kind |-> "yield", item |-> c.chunk, p |-> c.p]

InitChunks ==
    /\ op = "chunks" /\ src \in RangeInputs /\ n \in 1..MaxN
    /\ arg = "" /\ isSeq = FALSE /\ InitFrame /\ NoHeap

ChunksNext ==
    /\ op = "chunks" /\ pc = "run"
    /\ LET r == chunks(src, pulled, n) IN
         /\ pulled' = r.p
         /\ out' = IF r.kind = "yield" THEN Append(out, r.item) ELSE out
         /\ pc' = IF r.kind = "yield" THEN "run" ELSE "done"
    /\ UNCHANGED <<op, src, n, arg, isSeq, asked, ret, i, prev, seen, heap, built>>

\* ---------------------------------------------------------------- unique, squeeze
\* One resumption of unique: read on to the first item not in `seen`.
RECURSIVE unique(_, _, _)
unique(s, p, sn) ==
    IF p = Len(s)
    THEN [kind |-> "return", item |-> None, p |-> p]
    ELSE IF s[p + 1] \notin sn
         THEN [kind |-> "yield", item |-> s[p + 1], p |-> p + 1]
         ELSE unique(s, p + 1, sn)

\* One resumption of squeeze: read on to the first item that differs from
\* `prev` (the sentinel before anything was yielded).
RECURSIVE SqueezeLikeUnique(_, _, _)
SqueezeLikeUnique(s, p, pv) ==
    IF p = Len(s)
    THEN [kind |-> "return", item |-> None, p |-> p]
    ELSE IF \A k \in 1..p : s[k] # s[p + 1]
         THEN [kind |-> "yield", item |-> s[p + 1], p |-> p + 1]
         ELSE SqueezeLikeUnique(s, p + 1, pv)

RECURSIVE squeeze(_, _, _)
squeeze(s, p, pv) ==
    IF p = Len(s)
    THEN [kind |-> "return", item |-> None, p |-> p]
    ELSE IF s[p + 1] # pv
         THEN [kind |-> "yield", item |-> s[p + 1], p |-> p + 1]
         ELSE squeeze(s, p + 1, pv)

InitDedup ==
    /\ op \in {"unique", "squeeze"} /\ src \in FlatInputs
    /\ NoArgs /\ InitFrame /\ NoHeap

UniqueNext ==
    /\ op = "unique" /\ pc = "run"
    /\ LET r == unique(src, pulled, seen) IN
         /\ pulled' = r.p
         /\ seen' = IF r.kind = "yield" THEN seen \cup {r.item} ELSE seen
         /\ out' = IF r.kind = "yield" THEN Append(out, r.item) ELSE out
         /\ pc' = IF r.kind = "yield" THEN "run" ELSE "done"
    /\ UNCHANGED <<op, src, n, arg, isSeq, asked, ret, i, prev, heap, built>>

SqueezeNext ==
    /\ op = "squeeze" /\ pc = "run"
    /\ LET r == squeeze(src, pulled, prev) IN
         /\ pulled' = r.p
         /\ prev' = IF r.kind = "yield" THEN r.item ELSE prev
         /\ out' = IF r.kind = "yield" THEN Append(out, r.item) ELSE out
         /\ pc' = IF r.kind = "yield" THEN "run" ELSE "done"
    /\ UNCHANGED <<op, src, n, arg, isSeq, asked, ret, i, seen, heap, built>>

\* ---------------------------------------------------------------- first, last, find
NoneInputs == SeqsUpTo(Ints \cup {None}, MaxLen)

\* next(iter(iterable), None)
FirstRaisesOnEmpty(s, p) ==
    IF p < Len(s)
    THEN [kind |-> "return", value |-> s[p + 1], p |-> p + 1]
    ELSE [kind |-> "raise", value |-> NotReturned, p |-> p]

first(s, p) ==
    IF p < Len(s)
    THEN [kind |-> "return", value |-> s[p + 1], p |-> p + 1]
    ELSE [kind |-> "return", value |-> None, p |-> p]

\* last: a Sequence is indexed, anything else is read to its end
last(s, sequence) ==
    IF sequence
    THEN IF Len(s) < 1
         THEN [kind |-> "return", value |-> None, p |-> 0]
         ELSE [kind |-> "return", value |-> s[Len(s)], p |-> 0]
    ELSE [kind |-> "return", value |-> IF Len(s) = 0 THEN None ELSE s[Len(s)],
          p |-> Len(s)]

\* One resumption of the lazy filter where(predicate): read on to the
\* first item the predicate holds for.
RECURSIVE where(_, _, _)
where(s, p, pred) ==
    IF p = Len(s)
    THEN [kind |-> "return", item |-> None, p |-> p]
    ELSE IF Holds(pred, s[p + 1])
         THEN [kind |-> "yield", item |-> s[p + 1], p |-> p + 1]
         ELSE where(s, p + 1, pred)

\* find: iterable | where(predicate) | first, first asking the filter for
\* one item
FindDrains(s, pred) ==
    LET w == where(s, 0, pred) IN
    IF w.kind = "yield"
    THEN [kind |-> "return", value |-> w.item, p |-> Len(s)]
    ELSE [kind |-> "return", value |-> None, p |-> w.p]

find(s, pred) ==
    LET w == where(s, 0, pred)
        f == first(IF w.kind = "yield" THEN <<w.item>> ELSE <<>>, 0)
    IN [kind |-> f.kind, value |-> f.value, p |-> w.p]

InitFirstLast ==
    /\ \/ op = "first" /\ isSeq = FALSE
       \/ op = "last" /\ isSeq \in BOOLEAN
    /\ src \in NoneInputs
    /\ n = 0 /\ arg = "" /\ InitFrame /\ NoHeap

InitFind ==
    /\ op = "find"
    /\ \/ arg \in {"iseven", "ismul3"} /\ src \in FlatInputs
       \/ arg = "isnone" /\ src \in NoneInputs
    /\ n = 0 /\ isSeq = FALSE /\ InitFrame /\ NoHeap

Returns(r) ==
    /\ ret' = r.value
    /\ pulled' = r.p
    /\ pc' = IF r.kind = "return" THEN "done" ELSE "raised"
    /\ UNCHANGED <<op, src, n, arg, isSeq, asked, out, i, prev, seen, heap, built>>

FirstCall == op = "first" /\ pc = "run" /\ Returns(first(src, 0))

LastCall == op = "last" /\ pc = "run" /\ Returns(last(src, isSeq))

FindCall == op = "find" /\ pc = "run" /\ Returns(find(src, arg))

\* ---------------------------------------------------------------- asserteach
\* One resumption of asserteach: read an item, assert the predicate, yield.
AsserteachDefers(s, p, pred) ==
    IF p = Len(s)
    THEN [kind |-> "return", item |-> None, p |-> p]
    ELSE [kind |-> "yield", item |-> s[p + 1], p |-> p + 1]

asserteach(s, p, pred) ==
    IF p = Len(s)
    THEN [kind |-> "return", item |-> None, p |-> p]
    ELSE IF ~Holds(pred, s[p + 1])
         THEN [kind |-> "raise", item |-> None, p |-> p + 1]
         ELSE [kind |-> "yield", item |-> s[p + 1], p |-> p + 1]

InitAsserteach ==
    /\ op = "asserteach" /\ src \in FlatInputs
    /\ arg \in {"iseven", "ismul3", "_identity"}
    /\ n = 0 /\ isSeq = FALSE /\ InitFrame /\ NoHeap

AsserteachNext ==
    /\ op = "asserteach" /\ pc = "run"
    /\ LET r == asserteach(src, pulled, arg) IN
         /\ pulled' = r.p
         /\ out' = IF r.kind = "yield" THEN Append(out, r.item) ELSE out
         /\ pc' = CASE r.kind = "yield" -> "run"
                    [] r.kind = "raise" -> "raised"
                    [] OTHER -> "done"
    /\ UNCHANGED <<op, src, n, arg, isSeq, asked, ret, i, prev, seen, heap, built>>

\* ---------------------------------------------------------------- traverse
TravLeaves == {I(1), Str(<<"a", "b">>)}
TravInner == {List(s) : s \in SeqsUpTo(TravLeaves, MaxInner)}
TravMid == TravLeaves \cup TravInner
TravInputs == TravMid \cup {List(s) : s \in SeqsUpTo(TravMid, MaxTop)}
Keys == {"_identity", "reverse"}

Reverse(s) == [k \in 1..Len(s) |-> s[Len(s) + 1 - k]]

\* `for obj in key(objs)`: the children, or the TypeError of iterating
\* (or reversing) an object that is not iterable
Children(key, objs) ==
    IF ~IsIterable(objs)
    THEN [kind |-> "TypeError", items |-> <<>>]
    ELSE [kind |-> "ok",
          items |-> IF key = "reverse" THEN Reverse(Items(objs)) ELSE Items(objs)]

\* Everything the traverse generator yields on objs, and whether it ends
\* by raising TypeError.  `try: yield from obj | traverse(key)` guards each
\* child's traversal; `for obj in key(objs)` itself is outside the try.
RECURSIVE TraverseDropsLeaf(_, _)

RECURSIVE TraverseEachDropsLeaf(_, _)
TraverseEachDropsLeaf(objs, key) ==
    IF objs = <<>>
    THEN <<>>
    ELSE LET r == TraverseDropsLeaf(Head(objs), key) IN
         r.out \o TraverseEachDropsLeaf(Tail(objs), key)

TraverseDropsLeaf(objs, key) ==
    IF objs.tag \in {"str", "bytes"}
    THEN [out |-> <<objs>>, raised |-> FALSE]
    ELSE LET c == Children(key, objs) IN
         IF c.kind = "TypeError"
         THEN [out |-> <<>>, raised |-> TRUE]
         ELSE [out |-> TraverseEachDropsLeaf(c.items, key), raised |-> FALSE]

RECURSIVE traverse(_, _)

RECURSIVE traverseEach(_, _)
traverseEach(objs, key) ==
    IF objs = <<>>
    THEN <<>>
    ELSE LET r == traverse(Head(objs), key) IN
         r.out \o (IF r.raised THEN <<Head(objs)>> ELSE <<>>)
               \o traverseEach(Tail(objs), key)

traverse(objs, key) ==
    IF objs.tag \in {"str", "bytes"}
    THEN [out |-> <<objs>>, raised |-> FALSE]
    ELSE LET c == Children(key, objs) IN
         IF c.kind = "TypeError"
         THEN [out |-> <<>>, raised |-> TRUE]
         ELSE [out |-> traverseEach(c.items, key), raised |-> FALSE]

\* traverse is applied to the single object held in src
InitTraverse ==
    /\ op = "traverse" /\ src \in TravInputs /\ arg \in Keys
    /\ n = 0 /\ isSeq = FALSE /\ InitFrame /\ NoHeap

\* One resumption of the generator by its consumer.
TraverseNext ==
    /\ op = "traverse" /\ pc = "run"
    /\ LET t == traverse(src, arg) IN
         IF Len(out) < Len(t.out)
         THEN out' = Append(out, t.out[Len(out) + 1]) /\ pc' = "run"
         ELSE out' = out /\ pc' = IF t.raised THEN "raised" ELSE "done"
    /\ UNCHANGED <<op, src, n, arg, isSeq, pulled, asked, ret, i, prev, seen, heap, built>>

\* ---------------------------------------------------------------- partial pipes
\* The functions a caller composes are left uninterpreted: a value is the
\* input followed by the names of the functions applied to it, so two
\* results are equal only when the same functions ran in the same order.
Inputs == {<<"range(9)">>, <<"ABC">>}
App(name, x) == Append(x, name)

PipeOperand == [kind |-> "Pipe", name |-> "where(iseven)", ref |-> 0]
CallableOperand == [kind |-> "callable", name |-> "ord", ref |-> 0]
OtherOperand == [kind |-> "int", name |-> "5", ref |-> 0]
PartialOperand(r) == [kind |-> "_PartialPipe", name |-> "P", ref |-> r]

NoOperand == [kind |-> "", name |-> "", ref |-> 0]
\* P = _PartialPipe(_identity)
P == [function |-> [k |-> "_identity", self |-> 0, other |-> NoOperand]]

\* f(obj) for the function f of a partial pipe in heap h
RECURSIVE CallOuterFirst(_, _, _)
CallOuterFirst(h, f, obj) ==
    CASE f.k = "_identity" -> obj
      [] f.k = "lambda60" ->
           LET inner == IF f.other.kind = "_PartialPipe"
                        THEN CallOuterFirst(h, h[f.other.ref].function, obj)
                        ELSE App(f.other.name, obj)
           IN CallOuterFirst(h, h[f.self].function, inner)
      [] f.k = "lambda62" ->
           CallOuterFirst(h, h[f.self].function, App(f.other.name, obj))

RECURSIVE Call(_, _, _)
Call(h, f, obj) ==
    CASE f.k = "_identity" -> obj
      [] f.k = "lambda60" ->
           \* other.function(self.function(obj))
           LET inner == Call(h, h[f.self].function, obj) IN
           IF f.other.kind = "_PartialPipe"
           THEN Call(h, h[f.other.ref].function, inner)
           ELSE App(f.other.name, inner)
      [] f.k = "lambda62" ->
           \* other(self.function(obj))
           App(f.other.name, Call(h, h[f.self].function, obj))

\* self | other: the function of the new partial pipe, or NotImplemented
NotImplemented == [k |-> "NotImplemented", self |-> 0, other |-> NoOperand]

or(self, other) ==
    IF other.kind \in {"Pipe", "_PartialPipe"}
    THEN [k |-> "lambda60", self |-> self, other |-> other]
    ELSE IF other.kind = "callable"
         THEN [k |-> "lambda62", self |-> self, other |-> other]
         ELSE NotImplemented

Operands(h) ==
    {PipeOperand, CallableOperand, OtherOperand}
        \cup {PartialOperand(r) : r \in 1..Len(h)}

\* the steps a chain was composed from, in order (history of Compose)
StepsOf(b, other) ==
    IF other.kind = "_PartialPipe" THEN b[other.ref] ELSE <<other.name>>

InitPartial ==
    /\ op = "partial" /\ src = <<>> /\ NoArgs /\ InitFrame
    /\ heap = <<P>> /\ built = << <<>> >>

\* c | g for a partial pipe c
Compose ==
    /\ op = "partial" /\ Len(heap) <= MaxChains
    /\ \E c \in 1..Len(heap), g \in Operands(heap) :
         LET f == or(c, g) IN
         IF f = NotImplemented
         THEN /\ ret' = [tag |-> "TypeError", v |-> <<>>]
              /\ UNCHANGED <<heap, built>>
         ELSE /\ heap' = Append(heap, [function |-> f])
              /\ built' = Append(built, built[c] \o StepsOf(built, g))
              /\ ret' = [tag |-> "_PartialPipe", v |-> <<>>]
    /\ UNCHANGED <<op, src, n, arg, isSeq, pulled, asked, out, pc, i, prev, seen>>

\* x | c (Pipe.__ror__) or c(x) (_PartialPipe.__call__)
ApplyChain ==
    /\ op = "partial"
    /\ \E c \in 1..Len(heap), x \in Inputs :
         ret' = [tag |-> "result", v |-> Call(heap, heap[c].function, x)]
    /\ UNCHANGED <<op, src, n, arg, isSeq, pulled, asked, out, pc, i, prev, seen,
                   heap, built>>

\* ---------------------------------------------------------------- specification
Init ==
    \/ InitTake \/ InitFlatten \/ InitCollect \/ InitChunks \/ InitDedup
    \/ InitFirstLast \/ InitFind \/ InitAsserteach \/ InitTraverse
    \/ InitPartial

Next ==
    \/ TakeNext \/ FlattenNext \/ CollectCall \/ ChunksNext
    \/ UniqueNext \/ SqueezeNext
    \/ FirstCall \/ LastCall \/ FindCall
    \/ AsserteachNext \/ TraverseNext
    \/ Compose \/ ApplyChain

Spec == Init /\ [][Next]_vars

\* collect at the tail of a chain keeps resuming the chunks generator
FairChunks == InitChunks /\ [][ChunksNext]_vars /\ WF_vars(ChunksNext)

\* ---------------------------------------------------------------- properties
Done == pc = "done"

\* C1: take(n) yields the first min(len(s), n) elements of s in order, and at
\* every point at most n elements were read from (and at most n requested
\* of) the source iterator, so the element after the nth stays in it.
C1_TakeReadsAtMostN ==
    op = "take" =>
        /\ pulled <= n /\ asked <= n
        /\ out = SubSeq(src, 1, pulled)
        /\ Done => Len(out) = Min(Len(src), n)

C1_Witness ==
    op = "take" /\ Done /\ n > 0 /\ Len(src) > n /\ pulled = n /\ Len(out) = n

\* what flatten is to yield for one element
ExpandAll(x) == IF IsIterable(x) THEN Items(x) ELSE <<x>>
ExpandButText(x) ==
    IF IsIterable(x) /\ x.tag \notin {"str", "bytes"} THEN Items(x) ELSE <<x>>

RECURSIVE ConcatAll(_)
ConcatAll(s) == IF s = <<>> THEN <<>> ELSE ExpandAll(Head(s)) \o ConcatAll(Tail(s))

RECURSIVE ConcatButText(_)
ConcatButText(s) ==
    IF s = <<>> THEN <<>> ELSE ExpandButText(Head(s)) \o ConcatButText(Tail(s))

\* C2 as claimed: flatten expands one level every iterable element except
\* text and bytes elements, which it yields whole; order is kept.
C2_TextYieldedWhole ==
    op = "flatten" =>
        /\ IsPrefix(out, ConcatButText(src))
        /\ Done => out = ConcatButText(src)

\* C2 amended: flatten expands one level every iterable element, text and
\* bytes elements included (a str into its characters, bytes into its byte
\* values); non-iterable elements are yielded as-is; order is kept.
C2_TextExpanded ==
    op = "flatten" =>
        /\ IsPrefix(out, ConcatAll(src))
        /\ Done => out = ConcatAll(src) /\ pulled = Len(src)

C2_Witness ==
    /\ op = "flatten" /\ Done /\ Len(src) = 2
    /\ src[1] = Str(<<"a", "b">>) /\ src[2] = List(<<List(<<I(3)>>)>>)
    /\ out = <<Str(<<"a">>), Str(<<"b">>), List(<<I(3)>>)>>

Groups(s, k) == [g \in 1..(Len(s) \div k) |-> List(SubSeq(s, (g - 1) * k + 1, g * k))]

C4_Groups ==
    op = "chunks" =>
        /\ IsPrefix(out, Groups(src, n))
        /\ Done => out = Groups(src, n)

\* C4: for n >= 1, chunks(n) yields exactly floor(len(s) / n) groups, the
\* i-th being s[i*n .. i*n+n-1]; a shorter final group is never yielded;
\* the traversal terminates.
C4_ChunksFullGroupsAndEnds == [](C4_Groups) /\ <>Done

C4_Witness ==
    /\ op = "chunks" /\ Done /\ n >= 2 /\ Len(src) % n # 0
    /\ Len(out) >= 1 /\ pulled = Len(src)

C5_AppliesItsSteps ==
    op = "partial" =>
        \A c \in 1..Len(heap), x \in Inputs :
            Call(heap, heap[c].function, x) = x \o built[c]

C5_OperandsKept ==
    /\ Len(heap') >= Len(heap)
    /\ \A c \in 1..Len(heap) : heap'[c] = heap[c] /\ built'[c] = built[c]

\* C5: composing never changes an existing partial pipe; P stays the
\* identity and every chain applies exactly the steps it was composed
\* from, in the order of composition.
C5_ChainsImmutable == [](C5_AppliesItsSteps) /\ [][C5_OperandsKept]_vars

C5_Witness ==
    /\ op = "partial" /\ Len(heap) = 1 + MaxChains
    /\ \E c \in 1..Len(heap) :
         /\ Len(built[c]) >= 3
         /\ heap[c].function.other.kind = "_PartialPipe"
         /\ \E x \in Inputs : ret = [tag |-> "result", v |-> x \o built[c]]

\* position of the first element of s the predicate holds for, 0 if none
FirstMatch(s, pred) ==
    IF \E k \in 1..Len(s) : Holds(pred, s[k])
    THEN CHOOSE k \in 1..Len(s) :
            Holds(pred, s[k]) /\ \A m \in 1..(k - 1) : ~Holds(pred, s[m])
    ELSE 0

\* C6: find returns the first element satisfying the predicate and reads
\* exactly the elements up to and including it; with no match it reads the
\* whole input and returns None.
C6_FindShortCircuits ==
    (op = "find" /\ pc # "run") =>
        /\ Done
        /\ LET k == FirstMatch(src, arg) IN
             IF k > 0
             THEN ret = src[k] /\ pulled = k
             ELSE ret = None /\ pulled = Len(src)

C6_Witness ==
    /\ op = "find" /\ Done /\ arg = "iseven"
    /\ FirstMatch(src, arg) = 3 /\ Len(src) > 3 /\ pulled = 3

\* position of the element first / last / find is to return, 0 if none
ResultAt ==
    CASE op = "first" -> IF src = <<>> THEN 0 ELSE 1
      [] op = "last" -> Len(src)
      [] op = "find" -> FirstMatch(src, arg)

\* C7 as claimed: first, last and find never fail, and what they return
\* without a result is distinct from every element, so the caller can tell
\* "no result" from a result.
C7_AbsentDistinctFromElements ==
    (op \in {"first", "last", "find"} /\ pc # "run") =>
        /\ Done
        /\ (ret = None) <=> (ResultAt = 0)

\* C7 amended: first, last and find never fail; without a result they
\* return None, with a result the element itself, which may be None.
C7_NoneWhenAbsent ==
    (op \in {"first", "last", "find"} /\ pc # "run") =>
        /\ Done
        /\ ret = IF ResultAt = 0 THEN None ELSE src[ResultAt]
        /\ (ret = None) <=> (ResultAt = 0 \/ src[ResultAt] = None)

C7_Witness ==
    /\ op \in {"first", "last", "find"} /\ Done
    /\ ResultAt = 0 /\ Len(src) >= 2 /\ ret = None

\* the first element of every maximal run of equal adjacent elements
RECURSIVE RunHeads(_, _)
RunHeads(s, k) ==
    IF k = 0
    THEN <<>>
    ELSE RunHeads(s, k - 1)
            \o (IF k = 1 \/ s[k] # s[k - 1] THEN <<s[k]>> ELSE <<>>)

\* the first occurrence of every distinct element
RECURSIVE FirstSeen(_, _)
FirstSeen(s, k) ==
    IF k = 0
    THEN <<>>
    ELSE FirstSeen(s, k - 1)
            \o (IF \A m \in 1..(k - 1) : s[m] # s[k] THEN <<s[k]>> ELSE <<>>)

\* C8: squeeze replaces every maximal run of adjacent equal elements by one
\* occurrence: the first element is kept, no two adjacent outputs are equal,
\* equal elements that are not adjacent are all kept; unique yields each
\* distinct element once, in first-seen order.
C8_SqueezeCollapsesRuns ==
    /\ op = "squeeze" =>
        /\ IsPrefix(out, RunHeads(src, Len(src)))
        /\ \A k \in 1..(Len(out) - 1) : out[k] # out[k + 1]
        /\ Done => /\ out = RunHeads(src, Len(src))
                   /\ src # <<>> => out[1] = src[1]
    /\ (op = "unique" /\ Done) => out = FirstSeen(src, Len(src))

C8_Witness ==
    /\ op = "squeeze" /\ Done /\ Len(out) < Len(src)
    /\ \E k, m \in 1..Len(out) : k + 1 < m /\ out[k] = out[m]

\* the leaves below x in depth-first order of key's children; an object
\* that cannot be iterated is a leaf, and so is a str or bytes object
RECURSIVE LeavesOf(_, _)

RECURSIVE LeavesOfEach(_, _)
LeavesOfEach(xs, key) ==
    IF xs = <<>> THEN <<>> ELSE LeavesOf(Head(xs), key) \o LeavesOfEach(Tail(xs), key)

LeavesOf(x, key) ==
    IF x.tag \in {"str", "bytes"} \/ ~IsIterable(x)
    THEN <<x>>
    ELSE LeavesOfEach(IF key = "reverse" THEN Reverse(Items(x)) ELSE Items(x), key)

\* C9 as claimed: for every object, the one traverse is applied to
\* included, a failure to iterate makes the object a leaf yielded once;
\* traverse yields the leaves depth-first and never raises.
C9_NeverRaises ==
    op = "traverse" =>
        /\ pc # "raised"
        /\ IsPrefix(out, LeavesOf(src, arg))
        /\ Done => out = LeavesOf(src, arg)

\* C9 amended: a failure to iterate a child makes the child a leaf yielded
\* once, and traverse yields the leaves depth-first without raising, when
\* the object it is applied to is iterable or text; applied to an object
\* that is neither, it yields nothing and the TypeError propagates.
C9_ChildFailureIsLeaf ==
    op = "traverse" =>
        IF IsIterable(src)
        THEN /\ pc # "raised"
             /\ IsPrefix(out, LeavesOf(src, arg))
             /\ Done => out = LeavesOf(src, arg)
        ELSE /\ out = <<>>
             /\ pc \in {"run", "raised"}

C9_Witness ==
    /\ op = "traverse" /\ Done /\ arg = "reverse" /\ src.tag = "list"
    /\ Len(src.v) = 2 /\ src.v[1] = I(1) /\ src.v[2].tag = "list"
    /\ Len(out) = 3 /\ out[3] = I(1)

\* the longest prefix of s on which the predicate holds
GoodPrefix(s, pred) ==
    LET k == CHOOSE m \in 0..Len(s) :
                /\ \A j \in 1..m : Holds(pred, s[j])
                /\ m < Len(s) => ~Holds(pred, s[m + 1])
    IN SubSeq(s, 1, k)

\* C10 as claimed: asserteach yields the longest prefix on which the
\* predicate holds, and no element at or after the first violation is
\* yielded or read from the source.
C10_ViolatorNeverRead ==
    op = "asserteach" =>
        /\ IsPrefix(out, GoodPrefix(src, arg))
        /\ pulled <= Len(GoodPrefix(src, arg))

\* C10 amended: asserteach yields the longest prefix on which the predicate
\* holds; it fails when the first violating element is read, before
\* yielding it; that element is the last one read, and nothing at or
\* after it is yielded.
C10_FailsOnFirstViolation ==
    op = "asserteach" =>
        LET good == GoodPrefix(src, arg) IN
        /\ IsPrefix(out, good)
        /\ pulled <= Len(good) + 1
        /\ pc = "run" => pulled = Len(out)
        /\ pc = "raised" => out = good /\ pulled = Len(good) + 1 /\ Len(good) < Len(src)
        /\ Done => out = good /\ good = src /\ pulled = Len(src)

C10_Witness ==
    /\ op = "asserteach" /\ pc = "raised" /\ Len(out) >= 1
    /\ pulled = Len(out) + 1 /\ pulled < Len(src)
====
